---- MODULE Spec2Model ----
(***************************************************************************)
(* Fee ledger of the institute management application (src/app.py).        *)
(*                                                                         *)
(* The relational store is modelled by its row sets: students and fees,    *)
(* with the constraints init_db declares (primary keys, the UNIQUE         *)
(* (student_id, month, year) constraint, the foreign key with ON DELETE    *)
(* CASCADE) and the two SERIAL sequences.  Every request handler is one    *)
(* action: it runs in one database transaction, and a statement that       *)
(* violates a constraint raises, so nothing of that transaction commits.   *)
(*                                                                         *)
(* Columns that no handler of the ledger reads (name, father_name, class,  *)
(* photo_path, created_at, ...) are left out of the rows.  Amounts are     *)
(* integers.  The is_paid column holds 0 or 1; a Python True/False bound   *)
(* to it is stored as 1/0.  A TEXT column that holds a date is a record    *)
(* [form, y, m, d]: form "ymd" is the text "y-m-d" (which need not be a    *)
(* calendar date), "empty" the empty string, "junk" any other text and     *)
(* "null" SQL NULL / Python None.                                          *)
(*                                                                         *)
(* An archive of create_backup is its data.json, value by value as json    *)
(* writes it; the files of uploads and logo are left out, only whether     *)
(* copying them back raises.  Spec runs the handlers one after the other;  *)
(* RegistrySpec runs add_student and delete_student alone; RaceSpec runs   *)
(* two ensure_fee_records calls and AddSpec two add_student requests       *)
(* statement by statement; SessionSpec runs the handlers of the manager    *)
(* sessions for two browsers, check_session_validity before each.          *)
(***************************************************************************)
EXTENDS Integers, Sequences, FiniteSets, TLC

VARIABLES
    students,         \* rows of table students
    fees,             \* rows of table fees
    manager_sessions, \* rows of table manager_sessions
    students_id_seq,  \* last value handed out by students_id_seq
    fees_id_seq,      \* last value handed out by fees_id_seq
    now,              \* the date datetime.now() returns
    ticks,            \* how often the clock has advanced
    op,               \* the request handled last and its outcome
    requests,         \* how many requests have been handled
    institute_info,   \* rows of table institute_info
    backups,          \* the data.json of the archives in BACKUP_FOLDER
    calls,            \* the ensure_fee_records calls that run concurrently
    manager_sessions_id_seq, \* last value of manager_sessions_id_seq
    cookies,          \* the Flask session each client's browser holds
    uuids,            \* how many uuid4 values have been drawn
    revoked           \* history: the session_ids that were made inactive

\* what the handlers of the ledger leave alone
session_vars == <<manager_sessions_id_seq, cookies, uuids, revoked>>

vars ==
    <<students, fees, manager_sessions, students_id_seq, fees_id_seq, now,
      ticks, op, requests, institute_info, backups, calls, session_vars>>

\* ------------------------------------------------------------------ bounds
MaxStudentId == 3
MaxFeeId == 3
MaxTicks == 1
MaxRequests == 3

\* ------------------------------------------------------------ text values
NULL == "NULL"

NullText == [form |-> "null", y |-> 0, m |-> 0, d |-> 0]
EmptyText == [form |-> "empty", y |-> 0, m |-> 0, d |-> 0]
JunkText == [form |-> "junk", y |-> 0, m |-> 0, d |-> 0]
Ymd(y, m, d) == [form |-> "ymd", y |-> y, m |-> m, d |-> d]

\* ------------------------------------------------------------------ dates
Date(y, m, d) == [y |-> y, m |-> m, d |-> d]

IsLeap(y) == (y % 4 = 0 /\ y % 100 # 0) \/ y % 400 = 0

DaysInMonth(y, m) ==
    IF m = 2 THEN (IF IsLeap(y) THEN 29 ELSE 28)
    ELSE IF m \in {4, 6, 9, 11} THEN 30 ELSE 31

\* datetime.strptime(text, '%Y-%m-%d'): a ValueError unless the text is a
\* calendar date; a TypeError for None.
StrptimeLenient(text) ==
    IF text.form = "ymd" /\ text.m \in 1..12 /\ text.d >= 1
    THEN [ok |-> TRUE, dt |-> Date(text.y, text.m,
              IF text.d > DaysInMonth(text.y, text.m)
              THEN DaysInMonth(text.y, text.m) ELSE text.d)]
    ELSE [ok |-> FALSE, dt |-> Date(0, 0, 0)]

Strptime(text) ==
    IF text.form = "ymd" /\ text.m \in 1..12
       /\ text.d \in 1..DaysInMonth(text.y, text.m)
    THEN [ok |-> TRUE, dt |-> Date(text.y, text.m, text.d)]
    ELSE [ok |-> FALSE, dt |-> Date(0, 0, 0)]

\* datetime.now().strftime('%Y-%m-%d')
Strftime(dt) == Ymd(dt.y, dt.m, dt.d)

\* Python truthiness of a str-or-None value
Truthy(text) == text.form \notin {"null", "empty"}

\* a <= b on datetimes.  A parsed date is midnight of its day and the clock
\* is some time of its day, so the comparison is the one of the days.
DateLE(a, b) ==
    \/ a.y < b.y
    \/ a.y = b.y /\ a.m < b.m
    \/ a.y = b.y /\ a.m = b.m /\ a.d <= b.d

\* dt + relativedelta(months=1): the day is clipped to the new month's end
AddOneMonth(dt) ==
    LET y == IF dt.m = 12 THEN dt.y + 1 ELSE dt.y
        m == IF dt.m = 12 THEN 1 ELSE dt.m + 1
    IN  Date(y, m, IF dt.d > DaysInMonth(y, m) THEN DaysInMonth(y, m) ELSE dt.d)

ReplaceDay(dt, d) == Date(dt.y, dt.m, d)

StepMonthNoReplace(dt) == AddOneMonth(dt)

\* temp_dt.replace(day=1) + relativedelta(months=1)
StepMonth(dt) == AddOneMonth(ReplaceDay(dt, 1))

\* --------------------------------------------------------------- the store
StudentIds(S) == {s.id : s \in S}
FeeIds(F) == {f.id : f \in F}

StudentRow(id, admno, adm, fee, disc) ==
    [id |-> id, admission_number |-> admno, admission_date |-> adm,
     fee_per_month |-> fee, discount |-> disc]

FeeRow(id, sid, month, year, amount, paid, pdate, pmode, remarks) ==
    [id |-> id, student_id |-> sid, month |-> month, year |-> year,
     fee_amount |-> amount, is_paid |-> paid, payment_date |-> pdate,
     payment_mode |-> pmode, remarks |-> remarks]

\* SELECT ... FROM fees WHERE student_id = %s AND month = %s AND year = %s
FeesOf(F, sid, month, year) ==
    {f \in F : f.student_id = sid /\ f.month = month /\ f.year = year}

\* UNIQUE(student_id, month, year)
UniqueOff(F, row) == TRUE

UniqueOK(F, row) == FeesOf(F, row.student_id, row.month, row.year) = {}

ForeignKeyOff(S, row) == TRUE

\* FOREIGN KEY (student_id) REFERENCES students(id)
ForeignKeyOK(S, row) == row.student_id \in StudentIds(S)

\* INSERT INTO fees: the constraints of the table
FeeInsertOK(S, F, row) ==
    /\ row.id \notin FeeIds(F)
    /\ UniqueOK(F, row)
    /\ ForeignKeyOK(S, row)

PrimaryKeyOnly(S, row) == row.id \notin StudentIds(S)

\* UNIQUE admission_number, PRIMARY KEY id
StudentInsertOK(S, row) ==
    /\ row.id \notin StudentIds(S)
    /\ \A s \in S : s.admission_number # row.admission_number

NoCascade(F, sid) == F

\* DELETE FROM students WHERE id = %s, with ON DELETE CASCADE on fees
CascadeFees(F, sid) == {f \in F : f.student_id # sid}

\* the result of a transaction on fees
Outcome(ok, F, seq) == [ok |-> ok, fees |-> F, seq |-> seq]


\* the fee form of a request that submits none
NoForm ==
    [fee_amount |-> 0, is_paid |-> FALSE, payment_date |-> NullText,
     payment_mode |-> NULL, remarks |-> NULL]

\* what a handler that computes no unpaid summary and no grid hands to its
\* template
NoView == [raised |-> FALSE, unpaid_list |-> <<>>, total_due |-> 0]

\* a handled request: the handler, the ids of its URL, how it ended ("ok",
\* "not_found", or "error" when a statement raised), the number of fee rows
\* it inserted, the fee form it was sent and what it computed for its page
Op(name, sid, month, year, result, inserted) ==
    [name |-> name, sid |-> sid, month |-> month, year |-> year,
     result |-> result, inserted |-> inserted, form |-> NoForm,
     view |-> NoView]

\* ------------------------------------------------- ensure_fee_records
NetFeeClamped(fee_per_month, discount) ==
    IF fee_per_month - discount < 0 THEN 0 ELSE fee_per_month - discount

\* net_fee = fee_per_month - discount
NetFee(fee_per_month, discount) == fee_per_month - discount

FeeExistsNever(F, sid, month, year) == FALSE

\* cursor.fetchone() of the SELECT id FROM fees ... is a row
FeeExists(F, sid, month, year) == FeesOf(F, sid, month, year) # {}

NewFeeAsPaid(id, sid, month, year, net_fee) ==
    FeeRow(id, sid, month, year, net_fee, 1, NullText, "Cash", NULL)

\* INSERT INTO fees (student_id, month, year, fee_amount, is_paid)
\* VALUES (%s, %s, %s, %s, 0): the other columns take their default, NULL
NewFee(id, sid, month, year, net_fee) ==
    FeeRow(id, sid, month, year, net_fee, 0, NullText, NULL, NULL)

OverwriteExisting(F, sid, month, year, net_fee) ==
    {IF f \in FeesOf(F, sid, month, year)
     THEN [f EXCEPT !.fee_amount = net_fee] ELSE f : f \in F}

\* a month that has its row: the loop body does nothing
KeepExisting(F, sid, month, year, net_fee) == F

LoopContinuesNextMonth(temp_dt, current_dt) ==
    DateLE(temp_dt, AddOneMonth(current_dt))

\* while temp_dt <= current_dt
LoopContinues(temp_dt, current_dt) == DateLE(temp_dt, current_dt)

\* while temp_dt <= current_dt: ... ; an INSERT that violates a constraint
\* raises out of the loop, with the sequence value already taken
RECURSIVE ReconcileLoop(_, _, _, _, _, _, _)
ReconcileLoop(S, F, seq, sid, net_fee, temp_dt, current_dt) ==
    IF ~LoopContinues(temp_dt, current_dt) THEN Outcome(TRUE, F, seq)
    ELSE IF FeeExists(F, sid, temp_dt.m, temp_dt.y)
    THEN ReconcileLoop(S, KeepExisting(F, sid, temp_dt.m, temp_dt.y, net_fee),
                       seq, sid, net_fee, StepMonth(temp_dt), current_dt)
    ELSE LET row == NewFee(seq + 1, sid, temp_dt.m, temp_dt.y, net_fee)
         IN  IF FeeInsertOK(S, F, row)
             THEN ReconcileLoop(S, F \cup {row}, seq + 1, sid, net_fee,
                                StepMonth(temp_dt), current_dt)
             ELSE Outcome(FALSE, F, seq + 1)

\* ensure_fee_records(student_id, admission_date, fee_per_month, discount)
\* run at current_dt on the tables S, F: the fees it commits, the sequence,
\* and whether it returned (ok) or raised.  Nothing is committed when it
\* raises.
EnsureFeeRecords(S, F, seq, sid, admission_date, fee_per_month, discount, current_dt) ==
    IF ~Truthy(admission_date) THEN Outcome(TRUE, F, seq)
    ELSE LET parsed == Strptime(admission_date)
         IN  IF ~parsed.ok THEN Outcome(TRUE, F, seq)
             ELSE LET r == ReconcileLoop(S, F, seq, sid,
                                         NetFee(fee_per_month, discount),
                                         parsed.dt, current_dt)
                  IN  IF r.ok THEN r ELSE Outcome(FALSE, F, r.seq)

\* --------------------------------------------- get_unpaid_months_details
\* months = ['', 'January', ..., 'December']
months ==
    <<"", "January", "February", "March", "April", "May", "June", "July",
      "August", "September", "October", "November", "December">>

\* months[i] of Python: the list is indexed from 0, a negative index counts
\* from the end, any other index raises IndexError
MonthName(i) ==
    IF i \in 0..(Len(months) - 1) THEN [ok |-> TRUE, name |-> months[i + 1]]
    ELSE IF i \in (-Len(months))..(-1)
    THEN [ok |-> TRUE, name |-> months[Len(months) + i + 1]]
    ELSE [ok |-> FALSE, name |-> ""]

\* WHERE student_id = %s AND is_paid = FALSE
UnpaidOf(F, student_id) ==
    {f \in F : f.student_id = student_id /\ f.is_paid = 0}

\* ORDER BY year, month
YearMonthLE(f, g) ==
    f.year < g.year \/ (f.year = g.year /\ f.month <= g.month)

RECURSIVE OrderByYearMonth(_)
OrderByYearMonth(rows) ==
    IF rows = {} THEN <<>>
    ELSE LET first == CHOOSE f \in rows : \A g \in rows : YearMonthLE(f, g)
         IN  <<first>> \o OrderByYearMonth(rows \ {first})

\* the loop over the fetched rows: f"{month_name} {year} - Rs {amount:.2f}"
\* is kept as its three parts; months[record['month']] may raise
RECURSIVE UnpaidLoop(_, _, _)
UnpaidLoop(unpaid, unpaid_list, total_due) ==
    IF unpaid = <<>>
    THEN [raised |-> FALSE, unpaid_list |-> unpaid_list,
          total_due |-> total_due]
    ELSE LET record == Head(unpaid)
             month_name == MonthName(record.month)
         IN  IF ~month_name.ok
             THEN [raised |-> TRUE, unpaid_list |-> <<>>, total_due |-> 0]
             ELSE UnpaidLoop(Tail(unpaid),
                             Append(unpaid_list,
                                    [month_name |-> month_name.name,
                                     year |-> record.year,
                                     amount |-> record.fee_amount]),
                             total_due + record.fee_amount)

\* get_unpaid_months_details(student_id): (unpaid_list, total_due), or an
\* IndexError raised
GetUnpaidMonthsDetails(F, student_id) ==
    UnpaidLoop(OrderByYearMonth(UnpaidOf(F, student_id)), <<>>, 0)

\* ------------------------------------------------------------ the inputs
\* what the forms submit as admission_date
AdmissionTexts ==
    {EmptyText, Ymd(2023, 11, 31), Ymd(2023, 11, 30), Ymd(2023, 12, 15)}

FeeValues == {1000}
DiscountValues == {100, 1200}

\* the student forms of add_student and edit_student: admission_date,
\* fee_per_month, discount
StudentForms ==
    {form \in [admission_date : AdmissionTexts, fee_per_month : FeeValues,
               discount : DiscountValues] :
        form.discount = 100 \/ form.admission_date = Ymd(2023, 11, 30)}

\* ----------------------------------------------------------------- Init
\* INSERT INTO institute_info (id, address, contact) VALUES (1, ...): the row
\* init_db puts into the empty table
InstituteInfo ==
    {[id |-> 1, address |-> "Chandmari Road", contact |-> "9296820840"]}

\* no ensure_fee_records call is in flight
NoCalls == <<>>

\* no browser holds a session cookie
NoCookies == <<>>

\* datetime.now() when the application starts
StartDate == Date(2023, 12, 10)

Init ==
    /\ students = {}
    /\ fees = {}
    /\ manager_sessions = {}
    /\ students_id_seq = 0
    /\ fees_id_seq = 0
    /\ now = StartDate
    /\ ticks = 0
    /\ op = Op("init", 0, 0, 0, "ok", 0)
    /\ requests = 0
    /\ institute_info = InstituteInfo
    /\ backups = {}
    /\ calls = NoCalls
    /\ manager_sessions_id_seq = 0
    /\ cookies = NoCookies
    /\ uuids = 0
    /\ revoked = {}

\* ------------------------------------------------------- the clock
\* the same day of the next month
NextClock(dt) == AddOneMonth(dt)

Tick ==
    /\ ticks < MaxTicks
    /\ now' = NextClock(now)
    /\ ticks' = ticks + 1
    /\ op' = Op("tick", 0, 0, 0, "ok", 0)
    /\ UNCHANGED <<students, fees, manager_sessions, students_id_seq,
                   fees_id_seq, requests, institute_info, backups, calls,
                   session_vars>>

\* ------------------------------------------------------- add_student
\* generate_admission_number(): 'SL' + year + (count of this year's + 1)
GenerateAdmissionNumber(S, dt) ==
    [y |-> dt.y,
     n |-> Cardinality({s \in S : s.admission_number.y = dt.y}) + 1]

AddStudent(adm, fee, disc) ==
    LET id == students_id_seq + 1
        row == StudentRow(id, GenerateAdmissionNumber(students, now), adm,
                          fee, disc)
    IN  /\ students_id_seq < MaxStudentId
        /\ students_id_seq' = id
        /\ IF StudentInsertOK(students, row)
           THEN LET S == students \cup {row}
                    r == EnsureFeeRecords(S, fees, fees_id_seq, id, adm, fee,
                                          disc, now)
                IN  /\ r.seq <= MaxFeeId
                    /\ students' = S
                    /\ fees' = r.fees
                    /\ fees_id_seq' = r.seq
                    /\ op' = Op("add_student", id, 0, 0,
                                IF r.ok THEN "ok" ELSE "error",
                                Cardinality(r.fees) - Cardinality(fees))
           ELSE /\ op' = Op("add_student", id, 0, 0, "error", 0)
                /\ UNCHANGED <<students, fees, fees_id_seq>>
        /\ UNCHANGED <<manager_sessions, now, ticks,
                   institute_info, backups, calls,
                   session_vars>>

\* ------------------------------------------------------- view_student
ViewStudent(sid) ==
    /\ IF sid \in StudentIds(students)
       THEN LET student == CHOOSE s \in students : s.id = sid
                r == EnsureFeeRecords(students, fees, fees_id_seq, sid,
                                      student.admission_date,
                                      student.fee_per_month, student.discount,
                                      now)
            IN  /\ r.seq <= MaxFeeId
                /\ fees' = r.fees
                /\ fees_id_seq' = r.seq
                /\ op' = [Op("view_student", sid, 0, 0,
                             IF r.ok THEN "ok" ELSE "error",
                             Cardinality(r.fees) - Cardinality(fees))
                          EXCEPT !.view =
                              IF r.ok THEN GetUnpaidMonthsDetails(r.fees, sid)
                              ELSE NoView]
       ELSE /\ op' = Op("view_student", sid, 0, 0, "not_found", 0)
            /\ UNCHANGED <<fees, fees_id_seq>>
    /\ UNCHANGED <<students, manager_sessions, students_id_seq, now, ticks,
                   institute_info, backups, calls,
                   session_vars>>

\* ------------------------------------------------------- edit_student
\* UPDATE students SET ..., fee_per_month, discount, admission_date ...
\* WHERE id = %s
UpdateStudentRenumbering(S, sid, adm, fee, disc) ==
    {IF s.id = sid
     THEN [s EXCEPT !.admission_date = adm, !.fee_per_month = fee,
                    !.discount = disc,
                    !.admission_number = [y |-> @.y, n |-> @.n + 1]]
     ELSE s : s \in S}

UpdateStudent(S, sid, adm, fee, disc) ==
    {IF s.id = sid
     THEN [s EXCEPT !.admission_date = adm, !.fee_per_month = fee,
                    !.discount = disc]
     ELSE s : s \in S}

EditStudent(sid, adm, fee, disc) ==
    /\ students' = UpdateStudent(students, sid, adm, fee, disc)
    /\ op' = Op("edit_student", sid, 0, 0, "ok", 0)
    /\ UNCHANGED <<fees, manager_sessions, students_id_seq, fees_id_seq, now,
                   ticks,
                   institute_info, backups, calls,
                   session_vars>>

\* ------------------------------------------------------- delete_student
DeleteStudent(sid) ==
    /\ students' = {s \in students : s.id # sid}
    /\ fees' = CascadeFees(fees, sid)
    /\ op' = Op("delete_student", sid, 0, 0, "ok",
                Cardinality(CascadeFees(fees, sid)) - Cardinality(fees))
    /\ UNCHANGED <<manager_sessions, students_id_seq, fees_id_seq, now, ticks,
                   institute_info, backups, calls,
                   session_vars>>

\* ------------------------------------------------------- add_fee_record
\* what the fee form submits besides month and year
FeeForms ==
    {[fee_amount |-> 750, is_paid |-> TRUE, payment_date |-> Ymd(2023, 12, 5),
      payment_mode |-> "UPI", remarks |-> "late"],
     [fee_amount |-> 500, is_paid |-> FALSE, payment_date |-> EmptyText,
      payment_mode |-> "", remarks |-> ""]}

\* int(request.form['month']), int(request.form['year']): any integers
FormPeriods == {<<12, 2023>>, <<10, 2023>>, <<13, 2023>>}

\* the fee forms that are submitted: month, year and the rest
FeeSubmissions ==
    {sub \in FormPeriods \X FeeForms :
        sub[1] = <<12, 2023>>
        \/ (sub[1] = <<10, 2023>> /\ sub[2].is_paid)
        \/ (sub[1] = <<13, 2023>> /\ ~sub[2].is_paid)}

\* a Python bool bound to the INTEGER column is_paid
PaidFlag(b) == IF b THEN 1 ELSE 0

WithForm(f, form) ==
    [f EXCEPT !.fee_amount = form.fee_amount,
              !.is_paid = PaidFlag(form.is_paid),
              !.payment_date = form.payment_date,
              !.payment_mode = form.payment_mode,
              !.remarks = form.remarks]

UpdateFeeOfStudent(F, existing, form) ==
    {IF f.student_id = existing.student_id THEN WithForm(f, form) ELSE f
     : f \in F}

\* UPDATE fees SET fee_amount, is_paid, payment_date, payment_mode, remarks
\* WHERE id = existing[0]
UpdateFee(F, existing, form) ==
    {IF f.id = existing.id THEN WithForm(f, form) ELSE f : f \in F}

\* INSERT INTO fees (student_id, month, year, fee_amount, is_paid,
\*                   payment_date, payment_mode, remarks)
FormFee(id, sid, month, year, form) ==
    FeeRow(id, sid, month, year, form.fee_amount, PaidFlag(form.is_paid),
           form.payment_date, form.payment_mode, form.remarks)

AddFeeRecord(sid, month, year, form) ==
    /\ IF FeesOf(fees, sid, month, year) # {}
       THEN LET existing == CHOOSE f \in FeesOf(fees, sid, month, year) : TRUE
            IN  /\ fees' = UpdateFee(fees, existing, form)
                /\ op' = [Op("add_fee_record", sid, month, year, "ok", 0)
                          EXCEPT !.form = form]
                /\ UNCHANGED fees_id_seq
       ELSE LET row == FormFee(fees_id_seq + 1, sid, month, year, form)
            IN  /\ fees_id_seq < MaxFeeId
                /\ fees_id_seq' = fees_id_seq + 1
                /\ IF FeeInsertOK(students, fees, row)
                   THEN /\ fees' = fees \cup {row}
                        /\ op' = [Op("add_fee_record", sid, month, year,
                                     "ok", 1) EXCEPT !.form = form]
                   ELSE /\ fees' = fees
                        /\ op' = [Op("add_fee_record", sid, month, year,
                                     "error", 0) EXCEPT !.form = form]
    /\ UNCHANGED <<students, manager_sessions, students_id_seq, now, ticks,
                   institute_info, backups, calls,
                   session_vars>>

\* ------------------------------------------------------- delete_fee_record
DeleteFeeRecord(fee_id) ==
    /\ fees' = {f \in fees : f.id # fee_id}
    /\ op' = Op("delete_fee_record", fee_id, 0, 0, "ok",
                Cardinality({f \in fees : f.id # fee_id}) - Cardinality(fees))
    /\ UNCHANGED <<students, manager_sessions, students_id_seq, fees_id_seq,
                   now, ticks,
                   institute_info, backups, calls,
                   session_vars>>

\* ------------------------------------------------------- toggle_fee_status
ToggledKeepingMode(f, today) ==
    IF f.is_paid # 0
    THEN [f EXCEPT !.is_paid = 0, !.payment_date = NullText]
    ELSE [f EXCEPT !.is_paid = 1, !.payment_date = Strftime(today),
                   !.payment_mode = "Cash"]

ToggledClearingRemarks(f, today) ==
    IF f.is_paid # 0
    THEN [f EXCEPT !.is_paid = 0, !.payment_date = NullText,
                   !.payment_mode = NULL, !.remarks = NULL]
    ELSE [f EXCEPT !.is_paid = 1, !.payment_date = Strftime(today),
                   !.payment_mode = "Cash", !.remarks = NULL]

\* new_status = 0 if fee_record['is_paid'] else 1; UPDATE fees SET is_paid,
\* payment_date, payment_mode WHERE id = fee_record['id']
Toggled(f, today) ==
    IF f.is_paid # 0
    THEN [f EXCEPT !.is_paid = 0, !.payment_date = NullText,
                   !.payment_mode = NULL]
    ELSE [f EXCEPT !.is_paid = 1, !.payment_date = Strftime(today),
                   !.payment_mode = "Cash"]

ToggleCreates(F, seq, sid, month, year, today) ==
    Outcome(TRUE,
            F \cup {FeeRow(seq + 1, sid, month, year, 0, 1, Strftime(today),
                           "Cash", NULL)},
            seq + 1)

\* if fee_record: ... has no else: no row, no statement
ToggleMissing(F, seq, sid, month, year, today) == Outcome(FALSE, F, seq)

\* the fees table after toggle_fee_status(student_id, month, year)
ToggleFees(F, seq, sid, month, year, today) ==
    IF FeesOf(F, sid, month, year) # {}
    THEN LET fee_record == CHOOSE f \in FeesOf(F, sid, month, year) : TRUE
         IN  Outcome(TRUE,
                     {IF f.id = fee_record.id THEN Toggled(f, today) ELSE f
                      : f \in F},
                     seq)
    ELSE ToggleMissing(F, seq, sid, month, year, today)

TogglePeriods == {<<12, 2023>>, <<1, 2024>>}

ToggleFeeStatus(sid, month, year) ==
    LET r == ToggleFees(fees, fees_id_seq, sid, month, year, now)
    IN  /\ r.seq <= MaxFeeId
        /\ fees' = r.fees
        /\ fees_id_seq' = r.seq
        /\ op' = Op("toggle_fee_status", sid, month, year,
                    IF r.ok THEN "ok" ELSE "not_found",
                    Cardinality(r.fees) - Cardinality(fees))
        /\ UNCHANGED <<students, manager_sessions, students_id_seq, now, ticks,
                   institute_info, backups, calls,
                   session_vars>>

\* ------------------------------------------------------- students_grid
StudentFeesAllMonths(F, student_id, year) ==
    [m \in 1..12 |->
        IF \E f \in F : f.student_id = student_id /\ f.year = year
                         /\ f.month = m
        THEN (CHOOSE f \in F : f.student_id = student_id /\ f.year = year
                               /\ f.month = m).is_paid
        ELSE 0]

\* fees = {row['month']: row['is_paid'] for row in cursor.fetchall()} of
\* SELECT month, is_paid FROM fees WHERE student_id = %s AND year = %s
StudentFees(F, student_id, year) ==
    LET rows == {f \in F : f.student_id = student_id /\ f.year = year}
    IN  [m \in {f.month : f \in rows} |->
            (CHOOSE f \in rows : f.month = m).is_paid]

\* student_fees[student['id']] = fees, for every student
GridView(S, F, year) ==
    [student_id \in StudentIds(S) |-> StudentFees(F, student_id, year)]

\* request.args.get('year', datetime.now().year, type=int)
GridYears == {2023, 2024}

StudentsGrid(year) ==
    /\ op' = [Op("students_grid", 0, 0, year, "ok", 0)
              EXCEPT !.view = GridView(students, fees, year)]
    /\ UNCHANGED <<students, fees, manager_sessions, students_id_seq,
                   fees_id_seq, now, ticks, institute_info, backups, calls,
                   session_vars>>

\* ------------------------------------------------------- student_fees
\* COALESCE(SUM(fee_amount), 0) over a set of rows
RECURSIVE SumFeeAmount(_)
SumFeeAmount(rows) ==
    IF rows = {} THEN 0
    ELSE LET f == CHOOSE g \in rows : TRUE
         IN  f.fee_amount + SumFeeAmount(rows \ {f})

\* ORDER BY year DESC, month DESC
RECURSIVE OrderByYearMonthDesc(_)
OrderByYearMonthDesc(rows) ==
    IF rows = {} THEN <<>>
    ELSE LET last == CHOOSE f \in rows : \A g \in rows : YearMonthLE(g, f)
         IN  <<last>> \o OrderByYearMonthDesc(rows \ {last})

\* what student_fees hands to its template: the rows of the student as the
\* table holds them, and the two sums
FeesPage(F, student_id) ==
    LET rows == {f \in F : f.student_id = student_id}
    IN  [fee_records |-> OrderByYearMonthDesc(rows),
         total_paid |-> SumFeeAmount({f \in rows : f.is_paid = 1}),
         total_pending |-> SumFeeAmount({f \in rows : f.is_paid = 0})]

StudentFeesPage(sid) ==
    /\ op' = IF sid \in StudentIds(students)
             THEN [Op("student_fees", sid, 0, 0, "ok", 0)
                   EXCEPT !.view = FeesPage(fees, sid)]
             ELSE Op("student_fees", sid, 0, 0, "not_found", 0)
    /\ UNCHANGED <<students, fees, manager_sessions, students_id_seq,
                   fees_id_seq, now, ticks, institute_info, backups, calls,
                   session_vars>>

\* ------------------------------------------------------- demand bills
\* SELECT * FROM fees WHERE student_id = %s AND is_paid = FALSE
\* ORDER BY year, month: the rows the bill lists
UnpaidFees(F, student_id) == OrderByYearMonth(UnpaidOf(F, student_id))

GenerateDemandBill(sid) ==
    /\ op' = IF sid \in StudentIds(students)
             THEN [Op("generate_demand_bill", sid, 0, 0, "ok", 0)
                   EXCEPT !.view = [unpaid_fees |-> UnpaidFees(fees, sid)]]
             ELSE Op("generate_demand_bill", sid, 0, 0, "not_found", 0)
    /\ UNCHANGED <<students, fees, manager_sessions, students_id_seq,
                   fees_id_seq, now, ticks, institute_info, backups, calls,
                   session_vars>>

\* the student is looked up by admission number; the token of the link is
\* taken to verify
PublicDemandBill(admission_number) ==
    /\ op' = IF \E s \in students : s.admission_number = admission_number
             THEN LET student == CHOOSE s \in students :
                                     s.admission_number = admission_number
                  IN  [Op("public_demand_bill", student.id, 0, 0, "ok", 0)
                       EXCEPT !.view =
                           [unpaid_fees |-> UnpaidFees(fees, student.id)]]
             ELSE Op("public_demand_bill", 0, 0, 0, "not_found", 0)
    /\ UNCHANGED <<students, fees, manager_sessions, students_id_seq,
                   fees_id_seq, now, ticks, institute_info, backups, calls,
                   session_vars>>

\* ------------------------------------------------------- create_backup
\* json.dump(backup_data, f, ..., default=str) and json.load(f), column by
\* column: None is written as null, a str as a string, an int or float as a
\* number; default=str is called for no value of these columns
DumpTextStr(v) ==
    IF v = NULL THEN [json |-> "string", value |-> "None"]
    ELSE [json |-> "string", value |-> v]

DumpText(v) ==
    IF v = NULL THEN [json |-> "null", value |-> ""]
    ELSE [json |-> "string", value |-> v]

LoadText(j) == IF j.json = "null" THEN NULL ELSE j.value

\* a TEXT column that holds a date
DumpDateText(t) ==
    IF t.form = "null" THEN [json |-> "null", value |-> NullText]
    ELSE [json |-> "string", value |-> t]

LoadDateText(j) == IF j.json = "null" THEN NullText ELSE j.value

DumpNumber(n) == [json |-> "number", value |-> n]

LoadNumber(j) == j.value

\* admission_number, TEXT NOT NULL
DumpString(v) == [json |-> "string", value |-> v]

LoadString(j) == j.value

DumpStudent(s) ==
    [id |-> DumpNumber(s.id),
     admission_number |-> DumpString(s.admission_number),
     admission_date |-> DumpDateText(s.admission_date),
     fee_per_month |-> DumpNumber(s.fee_per_month),
     discount |-> DumpNumber(s.discount)]

LoadStudent(j) ==
    StudentRow(LoadNumber(j.id), LoadString(j.admission_number),
               LoadDateText(j.admission_date), LoadNumber(j.fee_per_month),
               LoadNumber(j.discount))

DumpFee(f) ==
    [id |-> DumpNumber(f.id), student_id |-> DumpNumber(f.student_id),
     month |-> DumpNumber(f.month), year |-> DumpNumber(f.year),
     fee_amount |-> DumpNumber(f.fee_amount),
     is_paid |-> DumpNumber(f.is_paid),
     payment_date |-> DumpDateText(f.payment_date),
     payment_mode |-> DumpText(f.payment_mode),
     remarks |-> DumpText(f.remarks)]

LoadFee(j) ==
    FeeRow(LoadNumber(j.id), LoadNumber(j.student_id), LoadNumber(j.month),
           LoadNumber(j.year), LoadNumber(j.fee_amount),
           LoadNumber(j.is_paid), LoadDateText(j.payment_date),
           LoadText(j.payment_mode), LoadText(j.remarks))

DumpInstitute(r) ==
    [id |-> DumpNumber(r.id), address |-> DumpText(r.address),
     contact |-> DumpText(r.contact)]

LoadInstitute(j) ==
    [id |-> LoadNumber(j.id), address |-> LoadText(j.address),
     contact |-> LoadText(j.contact)]

\* a TIMESTAMP column: a datetime, for which json.dump calls default=str;
\* the INSERT of restore_backup binds the string and the column parses it
DumpTimestamp(dt) == [json |-> "string", value |-> Ymd(dt.y, dt.m, dt.d)]

LoadTimestamp(j) == Date(j.value.y, j.value.m, j.value.d)

DumpSession(r) ==
    [id |-> DumpNumber(r.id), session_id |-> DumpString(r.session_id),
     is_active |-> DumpNumber(r.is_active),
     last_seen_at |-> DumpTimestamp(r.last_seen_at)]

LoadSession(j) ==
    [id |-> LoadNumber(j.id), session_id |-> LoadString(j.session_id),
     is_active |-> LoadNumber(j.is_active),
     last_seen_at |-> LoadTimestamp(j.last_seen_at)]

\* cursor.fetchall() of SELECT * FROM table: the rows, here in the order of
\* their ids
RECURSIVE Fetchall(_)
Fetchall(rows) ==
    IF rows = {} THEN <<>>
    ELSE LET first == CHOOSE r \in rows : \A q \in rows : r.id <= q.id
         IN  <<first>> \o Fetchall(rows \ {first})

\* the data.json create_backup writes
BackupData(S, F, I, M) ==
    [students |-> [i \in 1..Cardinality(S) |-> DumpStudent(Fetchall(S)[i])],
     fees |-> [i \in 1..Cardinality(F) |-> DumpFee(Fetchall(F)[i])],
     institute_info |->
         [i \in 1..Cardinality(I) |-> DumpInstitute(Fetchall(I)[i])],
     manager_sessions |->
         [i \in 1..Cardinality(M) |-> DumpSession(Fetchall(M)[i])],
     statistics |-> [total_students |-> DumpNumber(Cardinality(S)),
                     total_fees |-> DumpNumber(Cardinality(F))]]

CreateBackup ==
    /\ backups' = backups \cup {BackupData(students, fees, institute_info,
                                           manager_sessions)}
    /\ op' = Op("create_backup", 0, 0, 0, "ok", 0)
    /\ UNCHANGED <<students, fees, manager_sessions, students_id_seq,
                   fees_id_seq, now, ticks, institute_info, calls,
                   session_vars>>

\* ------------------------------------------------------- restore_backup
\* backup_data = json.load(f) of the data.json of an archive create_backup
\* made; such an archive holds a folder uploads
LoadBackup(b) ==
    [readable |-> TRUE, entries |-> TRUE, uploads |-> TRUE,
     students |-> [i \in 1..Len(b.students) |-> LoadStudent(b.students[i])],
     fees |-> [i \in 1..Len(b.fees) |-> LoadFee(b.fees[i])],
     institute_info |->
         [i \in 1..Len(b.institute_info) |->
             LoadInstitute(b.institute_info[i])],
     manager_sessions |->
         [i \in 1..Len(b.manager_sessions) |->
             LoadSession(b.manager_sessions[i])],
     statistics |->
         [total_students |-> LoadNumber(b.statistics.total_students),
          total_fees |-> LoadNumber(b.statistics.total_fees)]]

\* INSERT INTO students (id, ...) for each student of the document, in order
RECURSIVE InsertStudents(_, _)
InsertStudents(S, rows) ==
    IF rows = <<>> THEN [ok |-> TRUE, rows |-> S]
    ELSE IF StudentInsertOK(S, Head(rows))
    THEN InsertStudents(S \cup {Head(rows)}, Tail(rows))
    ELSE [ok |-> FALSE, rows |-> S]

\* INSERT INTO fees (id, ...) for each fee of the document, in order
RECURSIVE InsertFees(_, _, _)
InsertFees(S, F, rows) ==
    IF rows = <<>> THEN [ok |-> TRUE, rows |-> F]
    ELSE IF FeeInsertOK(S, F, Head(rows))
    THEN InsertFees(S, F \cup {Head(rows)}, Tail(rows))
    ELSE [ok |-> FALSE, rows |-> F]

\* INSERT INTO manager_sessions (id, session_id, ...): PRIMARY KEY id,
\* UNIQUE session_id
RECURSIVE InsertSessions(_, _)
InsertSessions(M, rows) ==
    IF rows = <<>> THEN [ok |-> TRUE, rows |-> M]
    ELSE IF \A r \in M : r.id # Head(rows).id
                         /\ r.session_id # Head(rows).session_id
    THEN InsertSessions(M \cup {Head(rows)}, Tail(rows))
    ELSE [ok |-> FALSE, rows |-> M]

MaxOf(ids) == CHOOSE i \in ids : \A j \in ids : j <= i

SetvalOne(rows) == 1

\* setval(seq, COALESCE((SELECT MAX(id) FROM table), 1))
Setval(rows) == IF rows = {} THEN 1 ELSE MaxOf({r.id : r \in rows})

\* stats = backup_data.get('statistics', {}) with
\* stats.get("total_students", 0) and stats.get("total_fees", 0): a document
\* without the key, or without the counts, reads as 0 and 0
Statistics(total_students, total_fees) ==
    [total_students |-> total_students, total_fees |-> total_fees]

\* the uploaded archives: readable says that the zip opens and holds a
\* data.json that parses, entries that the document has the keys
\* 'students', 'fees', 'institute_info' and 'manager_sessions' (a key the
\* document lacks reads as the empty list, backup_data.get(key, [])),
\* uploads that the archive holds a folder uploads or logo.  DocLedger is a
\* document put together without the key 'statistics'
DocLedger ==
    [readable |-> TRUE, entries |-> TRUE, uploads |-> TRUE,
     students |-> <<StudentRow(1, [y |-> 2023, n |-> 1], Ymd(2023, 11, 30),
                               1000, 100),
                    StudentRow(2, [y |-> 2023, n |-> 2], NullText, 1000,
                               1200)>>,
     fees |-> <<FeeRow(2, 1, 11, 2023, 900, 1, Ymd(2023, 11, 30), "UPI",
                       NULL)>>,
     institute_info |-> <<[id |-> 1, address |-> "Boring Road",
                           contact |-> "9153021229"]>>,
     manager_sessions |-> <<>>,
     statistics |-> Statistics(0, 0)]

DocDuplicate ==
    [readable |-> TRUE, entries |-> TRUE, uploads |-> TRUE,
     students |-> <<StudentRow(1, [y |-> 2023, n |-> 1], JunkText, 1000,
                               100)>>,
     fees |-> <<FeeRow(1, 1, 12, 2023, 900, 0, NullText, NULL, NULL),
                FeeRow(2, 1, 12, 2023, 750, 1, Ymd(2023, 12, 5), "UPI",
                       "late")>>,
     institute_info |-> <<>>,
     manager_sessions |-> <<>>,
     statistics |-> Statistics(1, 2)]

\* a document whose second fee row names a student the document has not
DocOrphan ==
    [readable |-> TRUE, entries |-> TRUE, uploads |-> TRUE,
     students |-> <<StudentRow(1, [y |-> 2023, n |-> 1], Ymd(2023, 11, 30),
                               1000, 100)>>,
     fees |-> <<FeeRow(1, 1, 11, 2023, 900, 0, NullText, NULL, NULL),
                FeeRow(2, 3, 12, 2023, 900, 0, NullText, NULL, NULL)>>,
     institute_info |-> <<>>,
     manager_sessions |-> <<>>,
     statistics |-> Statistics(1, 2)]

\* data.json is {}
DocEmpty ==
    [readable |-> TRUE, entries |-> FALSE, uploads |-> FALSE,
     students |-> <<>>, fees |-> <<>>,
     institute_info |-> <<>>, manager_sessions |-> <<>>,
     statistics |-> Statistics(0, 0)]

DocUnreadable ==
    [readable |-> FALSE, entries |-> FALSE, uploads |-> FALSE,
     students |-> <<>>,
     fees |-> <<>>, institute_info |-> <<>>, manager_sessions |-> <<>>,
     statistics |-> Statistics(0, 0)]

Documents == {DocLedger, DocDuplicate, DocOrphan, DocEmpty, DocUnreadable}

\* the tables and sequences at conn.commit() of restore_backup, when no
\* statement has raised (ok); the DELETEs have emptied the three tables
Restored(doc) ==
    LET s == InsertStudents({}, doc.students)
        f == InsertFees(s.rows, {}, doc.fees)
        m == InsertSessions({}, doc.manager_sessions)
    IN  [ok |-> doc.readable /\ s.ok /\ f.ok /\ m.ok,
         students |-> s.rows, fees |-> f.rows, manager_sessions |-> m.rows,
         students_id_seq |-> Setval(s.rows), fees_id_seq |-> Setval(f.rows),
         manager_sessions_id_seq |-> Setval(m.rows)]

\* flash(f'... Restored {stats.get("total_students", 0)} students and
\* {stats.get("total_fees", 0)} fee records.'): the counts of the message
Reported(doc) ==
    [total_students |-> doc.statistics.total_students,
     total_fees |-> doc.statistics.total_fees]

\* restore_backup of the uploaded document; copied says whether the
\* shutil calls that follow conn.commit() return or raise: they are made
\* when the archive holds the folders to copy.  The handler ends
\* "ok" when it flashes success and "error" when the except clause runs.
RestoreBackup(doc, copied) ==
    LET r == Restored(doc)
    IN  /\ IF r.ok
           THEN /\ students' = r.students
                /\ fees' = r.fees
                /\ manager_sessions' = r.manager_sessions
                /\ students_id_seq' = r.students_id_seq
                /\ fees_id_seq' = r.fees_id_seq
                /\ manager_sessions_id_seq' = r.manager_sessions_id_seq
                /\ op' = [Op("restore_backup", 0, 0, 0,
                             IF copied THEN "ok" ELSE "error",
                             Cardinality(r.fees) - Cardinality(fees))
                          EXCEPT !.form = doc,
                                 !.view = IF copied THEN Reported(doc)
                                          ELSE NoView]
           ELSE /\ op' = [Op("restore_backup", 0, 0, 0, "error", 0)
                          EXCEPT !.form = doc]
                /\ UNCHANGED <<students, fees, manager_sessions,
                               students_id_seq, fees_id_seq,
                               manager_sessions_id_seq>>
        /\ UNCHANGED <<now, ticks, institute_info, backups, calls, cookies,
                       uuids, revoked>>

\* one more request is handled
Request ==
    /\ requests < MaxRequests
    /\ requests' = requests + 1

\* the student ids a URL names: those of the rows there are, and one of no
\* row
RequestedStudents == StudentIds(students) \cup {students_id_seq + 1}

Next ==
    \/ Tick
    \/ \E form \in StudentForms :
           Request /\ AddStudent(form.admission_date, form.fee_per_month,
                                 form.discount)
    \/ \E sid \in RequestedStudents : Request /\ ViewStudent(sid)
    \/ \E sid \in StudentIds(students), form \in StudentForms :
           Request /\ EditStudent(sid, form.admission_date,
                                  form.fee_per_month, form.discount)
    \/ \E sid \in StudentIds(students) : Request /\ DeleteStudent(sid)
    \/ \E sid \in RequestedStudents, sub \in FeeSubmissions :
           Request /\ AddFeeRecord(sid, sub[1][1], sub[1][2], sub[2])
    \/ \E fee_id \in FeeIds(fees) : Request /\ DeleteFeeRecord(fee_id)
    \/ \E sid \in StudentIds(students), p \in TogglePeriods :
           Request /\ ToggleFeeStatus(sid, p[1], p[2])
    \/ \E year \in GridYears : Request /\ StudentsGrid(year)
    \/ \E sid \in StudentIds(students) : Request /\ StudentFeesPage(sid)
    \/ \E sid \in StudentIds(students) : Request /\ GenerateDemandBill(sid)
    \/ \E s \in students : Request /\ PublicDemandBill(s.admission_number)
    \/ Request /\ CreateBackup
    \/ \E doc \in Documents \cup {LoadBackup(b) : b \in backups},
          copied \in BOOLEAN :
           /\ doc.uploads \/ copied
           /\ Request
           /\ RestoreBackup(doc, copied)

Spec == Init /\ [][Next]_vars

\* the registry alone: students are added and deleted and nothing else is
\* requested
RegistryNext ==
    \/ Tick
    \/ \E form \in StudentForms :
           Request /\ AddStudent(form.admission_date, form.fee_per_month,
                                 form.discount)
    \/ \E sid \in StudentIds(students) : Request /\ DeleteStudent(sid)

RegistrySpec == Init /\ [][RegistryNext]_vars

\* =================================================================
\* Concurrent ensure_fee_records.  Each call runs on a connection of its
\* own, in a READ COMMITTED transaction that ends with conn.commit(): its
\* SELECT sees the committed rows and the rows the call has inserted; its
\* INSERT waits while an uncommitted row of another call holds the same
\* (student_id, month, year), and raises when a committed row does.  A
\* value taken from fees_id_seq is taken for good.
\* =================================================================

\* the requests that run at the same time
Calls == {1, 2}

Call(pc, sid, net_fee, temp_dt, current_dt, pending) ==
    [pc |-> pc, sid |-> sid, net_fee |-> net_fee, temp_dt |-> temp_dt,
     current_dt |-> current_dt, pending |-> pending]

\* two view_student requests for student 1, who has an admission date and
\* no fee record yet
RaceInit ==
    /\ \E adm \in AdmissionTexts :
           students = {StudentRow(1, [y |-> 2023, n |-> 1], adm, 1000, 100)}
    /\ fees = {}
    /\ manager_sessions = {}
    /\ students_id_seq = 1
    /\ fees_id_seq = 0
    /\ now = StartDate
    /\ ticks = 0
    /\ op = Op("init", 0, 0, 0, "ok", 0)
    /\ requests = 0
    /\ institute_info = InstituteInfo
    /\ backups = {}
    /\ calls = [p \in Calls |-> Call("start", 1, 0, Date(0, 0, 0),
                                     Date(0, 0, 0), {})]
    /\ manager_sessions_id_seq = 0
    /\ cookies = NoCookies
    /\ uuids = 0
    /\ revoked = {}

\* the rows other calls have inserted and not committed
PendingOfOthers(p) == UNION {calls[q].pending : q \in Calls \ {p}}

\* lines 159-174: the early returns, current_dt, net_fee, temp_dt
CallStart(p) ==
    /\ calls[p].pc = "start"
    /\ LET student == CHOOSE s \in students : s.id = calls[p].sid
           parsed == Strptime(student.admission_date)
       IN  calls' = [calls EXCEPT ![p] =
               IF ~Truthy(student.admission_date) \/ ~parsed.ok
               THEN [@ EXCEPT !.pc = "done"]
               ELSE Call("select", @.sid,
                         NetFee(student.fee_per_month, student.discount),
                         parsed.dt, now, {})]
    /\ UNCHANGED <<students, fees, manager_sessions, students_id_seq,
                   fees_id_seq, now, ticks, op, requests, institute_info,
                   backups,
                   session_vars>>

\* lines 175-183 and 189: the loop test, the SELECT, and the step when the
\* row exists
CallSelect(p) ==
    /\ calls[p].pc = "select"
    /\ LET c == calls[p]
       IN  calls' = [calls EXCEPT ![p] =
               IF ~LoopContinues(c.temp_dt, c.current_dt)
               THEN [@ EXCEPT !.pc = "commit"]
               ELSE IF FeeExists(fees \cup c.pending, c.sid, c.temp_dt.m,
                                 c.temp_dt.y)
               THEN [@ EXCEPT !.temp_dt = StepMonth(c.temp_dt)]
               ELSE [@ EXCEPT !.pc = "insert"]]
    /\ UNCHANGED <<students, fees, manager_sessions, students_id_seq,
                   fees_id_seq, now, ticks, op, requests, institute_info,
                   backups,
                   session_vars>>

\* lines 184-189: the INSERT and the step; the UniqueViolation is caught
\* nowhere in ensure_fee_records, so the call ends with its rows rolled back
CallInsert(p) ==
    /\ calls[p].pc = "insert"
    /\ LET c == calls[p]
           row == NewFee(fees_id_seq + 1, c.sid, c.temp_dt.m, c.temp_dt.y,
                         c.net_fee)
       IN  /\ UniqueOK(PendingOfOthers(p), row)
           /\ fees_id_seq' = fees_id_seq + 1
           /\ calls' = [calls EXCEPT ![p] =
                  IF FeeInsertOK(students, fees \cup c.pending, row)
                  THEN [@ EXCEPT !.pending = @ \cup {row},
                                 !.temp_dt = StepMonth(c.temp_dt),
                                 !.pc = "select"]
                  ELSE [@ EXCEPT !.pending = {}, !.pc = "raised"]]
    /\ UNCHANGED <<students, fees, manager_sessions, students_id_seq, now,
                   ticks, op, requests, institute_info, backups,
                   session_vars>>

\* line 191: conn.commit()
CallCommit(p) ==
    /\ calls[p].pc = "commit"
    /\ fees' = fees \cup calls[p].pending
    /\ calls' = [calls EXCEPT ![p] = [@ EXCEPT !.pending = {},
                                               !.pc = "done"]]
    /\ UNCHANGED <<students, manager_sessions, students_id_seq, fees_id_seq,
                   now, ticks, op, requests, institute_info, backups,
                   session_vars>>

RaceNext ==
    \/ Tick
    \/ \E p \in Calls : CallStart(p)
    \/ \E p \in Calls : CallSelect(p)
    \/ \E p \in Calls : CallInsert(p)
    \/ \E p \in Calls : CallCommit(p)

RaceSpec == RaceInit /\ [][RaceNext]_vars

\* =================================================================
\* add_student statement by statement.  The INSERT of the student is
\* committed at line 503 and its connection closed; ensure_fee_records then
\* runs on a connection and in a transaction of its own (lines 506-508).
\* =================================================================

\* two add_student requests that have not started, on empty tables
AddInit ==
    /\ students = {}
    /\ fees = {}
    /\ manager_sessions = {}
    /\ students_id_seq = 0
    /\ fees_id_seq = 0
    /\ now = StartDate
    /\ ticks = 0
    /\ op = Op("init", 0, 0, 0, "ok", 0)
    /\ requests = 0
    /\ institute_info = InstituteInfo
    /\ backups = {}
    /\ calls = [p \in Calls |-> Call("add", 0, 0, Date(0, 0, 0),
                                     Date(0, 0, 0), {})]
    /\ manager_sessions_id_seq = 0
    /\ cookies = NoCookies
    /\ uuids = 0
    /\ revoked = {}

\* lines 459-504: the admission number, the INSERT ... RETURNING id and
\* conn.commit(); an INSERT that raises ends the request in the except
\* clause
CallAddStudent(p, adm, fee, disc) ==
    /\ calls[p].pc = "add"
    /\ LET id == students_id_seq + 1
           row == StudentRow(id, GenerateAdmissionNumber(students, now), adm,
                             fee, disc)
       IN  /\ students_id_seq' = id
           /\ IF StudentInsertOK(students, row)
              THEN /\ students' = students \cup {row}
                   /\ calls' = [calls EXCEPT ![p] =
                                    [@ EXCEPT !.pc = "start", !.sid = id]]
              ELSE /\ students' = students
                   /\ calls' = [calls EXCEPT ![p] = [@ EXCEPT !.pc = "raised"]]
    /\ UNCHANGED <<fees, manager_sessions, fees_id_seq, now, ticks, op,
                   requests, institute_info, backups,
                   session_vars>>

\* the requests of other clients that read while the two run
AddNext ==
    \/ RaceNext
    \/ \E p \in Calls, form \in StudentForms :
           CallAddStudent(p, form.admission_date, form.fee_per_month,
                          form.discount)
    \/ \E sid \in StudentIds(students) :
           StudentFeesPage(sid) /\ UNCHANGED requests

AddSpec == AddInit /\ [][AddNext]_vars

\* =================================================================
\* The manager sessions.  A browser holds the Flask session as a signed
\* cookie; login makes it permanent (line 367), so every response signs it
\* anew and a cookie older than the session lifetime opens as an empty
\* session.  check_session_validity runs before every request.  A
\* session_id is the number of the uuid4 drawn for it.
\* =================================================================

\* the browsers
Clients == {1, 2}

SessionRow(id, session_id, is_active, last_seen_at) ==
    [id |-> id, session_id |-> session_id, is_active |-> is_active,
     last_seen_at |-> last_seen_at]

\* session_record_id 0: the session has no such key
Cookie(authenticated, session_record_id, signed_at) ==
    [authenticated |-> authenticated,
     session_record_id |-> session_record_id, signed_at |-> signed_at]

\* session.clear()
NoCookie == Cookie(FALSE, 0, Date(0, 0, 0))

\* the days of year y before month m
RECURSIVE DaysBeforeMonth(_, _)
DaysBeforeMonth(y, m) ==
    IF m <= 1 THEN 0 ELSE DaysBeforeMonth(y, m - 1) + DaysInMonth(y, m - 1)

\* the number of the day dt in the calendar
DayNumber(dt) ==
    365 * (dt.y - 1) + ((dt.y - 1) \div 4) - ((dt.y - 1) \div 100)
        + ((dt.y - 1) \div 400) + DaysBeforeMonth(dt.y, dt.m) + dt.d

\* the days of PERMANENT_SESSION_LIFETIME, which the application leaves at
\* the default of Flask
PermanentSessionLifetime == 31

\* INTERVAL '30 days' of cleanup_sessions
CleanupDays == 30

\* the session the request opens from the cookie
OpenSession(cookie, today) ==
    IF /\ cookie.authenticated
       /\ DayNumber(today) - DayNumber(cookie.signed_at)
              > PermanentSessionLifetime
    THEN NoCookie
    ELSE cookie

\* the cookie the response sets
SaveSession(cookie, today) ==
    IF cookie.authenticated THEN [cookie EXCEPT !.signed_at = today]
    ELSE NoCookie

\* UPDATE manager_sessions SET last_seen_at = CURRENT_TIMESTAMP
\* WHERE session_id = %s
Touch(M, session_id, today) ==
    {IF r.session_id = session_id THEN [r EXCEPT !.last_seen_at = today]
     ELSE r : r \in M}

\* check_session_validity: redirect says that it answers with the redirect
\* to login; when the SELECT finds no row neither branch runs
CheckSessionValidity(M, cookie, today) ==
    LET result == {r \in M : r.session_id = cookie.session_record_id}
    IN  IF cookie.authenticated /\ cookie.session_record_id # 0
        THEN IF \E r \in result : r.is_active = 1
             THEN [redirect |-> FALSE,
                   sessions |-> Touch(M, cookie.session_record_id, today),
                   cookie |-> cookie]
             ELSE IF \E r \in result : r.is_active = 0
             THEN [redirect |-> TRUE, sessions |-> M, cookie |-> NoCookie]
             ELSE [redirect |-> FALSE, sessions |-> M, cookie |-> cookie]
        ELSE [redirect |-> FALSE, sessions |-> M, cookie |-> cookie]

\* the request of client c as its handler is entered
Entered(c) ==
    CheckSessionValidity(manager_sessions, OpenSession(cookies[c], now), now)

\* login_required lets the request through
Passes(e) == ~e.redirect /\ e.cookie.authenticated

\* the answer to a request of client c for a handler under login_required:
\* M, result and cookie are what the handler makes of it when it runs, view
\* what the URL names
Respond(c, name, e, M, result, cookie, view) ==
    /\ manager_sessions' = IF Passes(e) THEN M ELSE e.sessions
    /\ cookies' = [cookies EXCEPT ![c] =
                      SaveSession(IF Passes(e) THEN cookie ELSE e.cookie, now)]
    /\ op' = [Op(name, c, 0, 0,
                 IF e.redirect THEN "terminated"
                 ELSE IF ~e.cookie.authenticated THEN "login_required"
                 ELSE result, 0)
              EXCEPT !.view = view]

\* ------------------------------------------------------- dashboard
Dashboard(c) ==
    LET e == Entered(c)
    IN  /\ Respond(c, "dashboard", e, e.sessions, "ok", e.cookie, NoView)
        /\ UNCHANGED <<students, fees, students_id_seq, fees_id_seq, now,
                       ticks, institute_info, backups, calls,
                       manager_sessions_id_seq, uuids, revoked>>

\* ------------------------------------------------------- login
\* POST /login with the password of the manager; create_session_record
\* inserts the row with is_active and last_seen_at at their defaults
Login(c) ==
    LET e == Entered(c)
        id == manager_sessions_id_seq + 1
        session_id == uuids + 1
    IN  /\ IF e.redirect \/ e.cookie.authenticated
           THEN /\ manager_sessions' = e.sessions
                /\ cookies' = [cookies EXCEPT ![c] = SaveSession(e.cookie, now)]
                /\ op' = Op("login", c, 0, 0,
                            IF e.redirect THEN "terminated" ELSE "dashboard",
                            0)
                /\ UNCHANGED <<manager_sessions_id_seq, uuids>>
           ELSE /\ manager_sessions' =
                       e.sessions \cup {SessionRow(id, session_id, 1, now)}
                /\ cookies' = [cookies EXCEPT ![c] =
                                  Cookie(TRUE, session_id, now)]
                /\ op' = Op("login", c, 0, 0, "ok", 0)
                /\ manager_sessions_id_seq' = id
                /\ uuids' = session_id
        /\ UNCHANGED <<students, fees, students_id_seq, fees_id_seq, now,
                       ticks, institute_info, backups, calls, revoked>>

\* ------------------------------------------------------- logout
\* UPDATE manager_sessions SET is_active = FALSE WHERE session_id = %s
LoggedOut(M, session_id) ==
    {IF r.session_id = session_id THEN [r EXCEPT !.is_active = 0] ELSE r :
        r \in M}

\* the session_ids of the rows of M that are active and no more in N
Deactivated(M, N) ==
    {r.session_id : r \in {x \in M : x.is_active = 1}}
        \ {r.session_id : r \in {x \in N : x.is_active = 1}}

Logout(c) ==
    LET e == Entered(c)
        M == IF e.redirect \/ e.cookie.session_record_id = 0 THEN e.sessions
             ELSE LoggedOut(e.sessions, e.cookie.session_record_id)
    IN  /\ manager_sessions' = M
        /\ cookies' = [cookies EXCEPT ![c] = NoCookie]
        /\ op' = Op("logout", c, 0, 0,
                    IF e.redirect THEN "terminated" ELSE "ok", 0)
        /\ revoked' = revoked \cup Deactivated(e.sessions, M)
        /\ UNCHANGED <<students, fees, students_id_seq, fees_id_seq, now,
                       ticks, institute_info, backups, calls,
                       manager_sessions_id_seq, uuids>>

\* ------------------------------------------------------- revoke_session
\* UPDATE manager_sessions SET is_active = FALSE
\* WHERE id = %s AND is_active = TRUE
\* the branches of revoke_session for the row of that id: nothing is
\* written when it is logged out already or is the caller's own
RevokeOne(M, id, current) ==
    {IF r.id = id /\ r.is_active # 0 /\ r.session_id # current
        /\ r.is_active = 1
     THEN [r EXCEPT !.is_active = 0] ELSE r : r \in M}

RevokeResult(M, id, current) ==
    IF \A r \in M : r.id # id THEN "not_found"
    ELSE LET target == CHOOSE r \in M : r.id = id
         IN  IF target.is_active = 0 THEN "already"
             ELSE IF target.session_id = current THEN "own_session"
             ELSE IF target.is_active = 1 THEN "revoked"
             ELSE "error"

RevokeSession(c, id) ==
    LET e == Entered(c)
        M == RevokeOne(e.sessions, id, e.cookie.session_record_id)
    IN  /\ Respond(c, "revoke_session", e, M,
                   RevokeResult(e.sessions, id, e.cookie.session_record_id),
                   e.cookie, [session_id |-> id])
        /\ revoked' = IF Passes(e) THEN revoked \cup Deactivated(e.sessions, M)
                      ELSE revoked
        /\ UNCHANGED <<students, fees, students_id_seq, fees_id_seq, now,
                       ticks, institute_info, backups, calls,
                       manager_sessions_id_seq, uuids>>

\* ------------------------------------------------------- revoke_all_sessions
RevokeEvery(M, current) ==
    {IF r.is_active = 1 THEN [r EXCEPT !.is_active = 0] ELSE r : r \in M}

\* UPDATE manager_sessions SET is_active = FALSE
\* WHERE session_id != %s AND is_active = TRUE
RevokeOthers(M, current) ==
    {IF r.session_id # current /\ r.is_active = 1
     THEN [r EXCEPT !.is_active = 0] ELSE r : r \in M}

RevokeAllSessions(c) ==
    LET e == Entered(c)
        M == RevokeOthers(e.sessions, e.cookie.session_record_id)
    IN  /\ Respond(c, "revoke_all_sessions", e, M, "ok", e.cookie, NoView)
        /\ revoked' = IF Passes(e) THEN revoked \cup Deactivated(e.sessions, M)
                      ELSE revoked
        /\ UNCHANGED <<students, fees, students_id_seq, fees_id_seq, now,
                       ticks, institute_info, backups, calls,
                       manager_sessions_id_seq, uuids>>

\* ------------------------------------------------------- cleanup_sessions
\* DELETE FROM manager_sessions
\* WHERE is_active = FALSE AND last_seen_at < NOW() - INTERVAL '30 days'
CleanedUp(M, today) ==
    {r \in M : ~(/\ r.is_active = 0
                 /\ DayNumber(r.last_seen_at)
                        < DayNumber(today) - CleanupDays)}

CleanupSessions(c) ==
    LET e == Entered(c)
    IN  /\ Respond(c, "cleanup_sessions", e, CleanedUp(e.sessions, now), "ok",
                   e.cookie, NoView)
        /\ UNCHANGED <<students, fees, students_id_seq, fees_id_seq, now,
                       ticks, institute_info, backups, calls,
                       manager_sessions_id_seq, uuids, revoked>>

\* ------------------------------------------------------- backups
\* create_backup requested by client c
CreateBackupBy(c) ==
    LET e == Entered(c)
    IN  /\ Respond(c, "create_backup", e, e.sessions, "ok", e.cookie, NoView)
        /\ backups' = IF Passes(e)
                      THEN backups \cup {BackupData(students, fees,
                                                    institute_info,
                                                    e.sessions)}
                      ELSE backups
        /\ UNCHANGED <<students, fees, students_id_seq, fees_id_seq, now,
                       ticks, institute_info, calls,
                       manager_sessions_id_seq, uuids, revoked>>

\* restore_backup requested by client c, of an archive whose files copy
RestoreBackupBy(c, doc) ==
    LET e == Entered(c)
        r == Restored(doc)
        done == Passes(e) /\ r.ok
    IN  /\ Respond(c, "restore_backup", e,
                   IF r.ok THEN r.manager_sessions ELSE e.sessions,
                   IF r.ok THEN "ok" ELSE "error", e.cookie,
                   IF r.ok THEN Reported(doc) ELSE NoView)
        /\ students' = IF done THEN r.students ELSE students
        /\ fees' = IF done THEN r.fees ELSE fees
        /\ students_id_seq' = IF done THEN r.students_id_seq
                              ELSE students_id_seq
        /\ fees_id_seq' = IF done THEN r.fees_id_seq ELSE fees_id_seq
        /\ manager_sessions_id_seq' = IF done THEN r.manager_sessions_id_seq
                                      ELSE manager_sessions_id_seq
        /\ UNCHANGED <<now, ticks, institute_info, backups, calls, uuids,
                       revoked>>

\* two browsers are logged in, each by a login on the day the application
\* started
SessionInit ==
    /\ students = {}
    /\ fees = {}
    /\ manager_sessions = {SessionRow(c, c, 1, StartDate) : c \in Clients}
    /\ students_id_seq = 0
    /\ fees_id_seq = 0
    /\ now = StartDate
    /\ ticks = 0
    /\ op = Op("init", 0, 0, 0, "ok", 0)
    /\ requests = 0
    /\ institute_info = InstituteInfo
    /\ backups = {}
    /\ calls = NoCalls
    /\ manager_sessions_id_seq = Cardinality(Clients)
    /\ cookies = [c \in Clients |-> Cookie(TRUE, c, StartDate)]
    /\ uuids = Cardinality(Clients)
    /\ revoked = {}

\* the ids a URL of revoke_session names: those of the rows there are, and
\* one of no row
RequestedSessions ==
    {r.id : r \in manager_sessions} \cup {manager_sessions_id_seq + 1}

SessionNext ==
    \/ Tick
    \/ \E c \in Clients : Request /\ Dashboard(c)
    \/ \E c \in Clients : Request /\ Login(c)
    \/ \E c \in Clients : Request /\ Logout(c)
    \/ \E c \in Clients, id \in RequestedSessions :
           Request /\ RevokeSession(c, id)
    \/ \E c \in Clients : Request /\ RevokeAllSessions(c)
    \/ \E c \in Clients : Request /\ CleanupSessions(c)
    \/ \E c \in Clients : Request /\ CreateBackupBy(c)
    \/ \E c \in Clients,
          doc \in {DocLedger, DocDuplicate}
                      \cup {LoadBackup(b) : b \in backups} :
           Request /\ RestoreBackupBy(c, doc)

SessionSpec == SessionInit /\ [][SessionNext]_vars

\* =================================================================
\* The claims.  What the statements below share.
\* =================================================================

\* the calendar months in their order
MonthIndex(y, m) == 12 * y + m

\* the text is the text of a calendar date, YYYY-MM-DD
IsCalendarDate(text) ==
    /\ text.form = "ymd"
    /\ text.m \in 1..12
    /\ text.d \in 1..DaysInMonth(text.y, text.m)

\* the rows of a student
LedgerOf(F, sid) == {f \in F : f.student_id = sid}

\* the (year, month) pairs from the month of date a through the month of T
MonthsThrough(a, T) ==
    {p \in (a.y .. T.y) \X (1..12) :
        /\ MonthIndex(a.y, a.m) <= MonthIndex(p[1], p[2])
        /\ MonthIndex(p[1], p[2]) <= MonthIndex(T.y, T.m)}

\* the request handled last ran ensure_fee_records for the student o.sid of
\* table S, and it returned
Reconciled(o, S) ==
    /\ o.name \in {"view_student", "add_student"}
    /\ o.result = "ok"
    /\ o.sid \in StudentIds(S)

StudentOf(S, sid) == CHOOSE s \in S : s.id = sid

\* ----------------------------------------------------------------- C1
\* C1: in every reachable state no two fee records share the same
\* (student_id, month, year).
C1_Uniqueness ==
    \A f, g \in fees :
        (f.student_id = g.student_id /\ f.month = g.month /\ f.year = g.year)
            => f = g

\* an upsert has rewritten a tuple that was there, next to other records of
\* the same student
C1_Witness ==
    /\ op.name = "add_fee_record" /\ op.result = "ok" /\ op.inserted = 0
    /\ Cardinality(LedgerOf(fees, op.sid)) >= 2

C3_NonDestructive ==
    [][/\ op'.name = "view_student" => (fees \subseteq fees'
                                        /\ students' = students)
       /\ op'.name = "add_student" => (fees \subseteq fees'
                                       /\ students \subseteq students')]_vars

\* a Reconcile has inserted a month for a student who has a manually edited
\* record
C3_Witness ==
    /\ op.name = "view_student" /\ op.result = "ok" /\ op.inserted > 0
    /\ \E f \in LedgerOf(fees, op.sid) :
           f.fee_amount = 750 /\ f.remarks = "late"

\* ----------------------------------------------------------------- C4
\* C4: from any ledger state, Reconcile at T1 and then again at T2, the same
\* time or a month later, leaves the same fee records as one Reconcile at T2
\* does, the student's admission_date, fee_per_month and discount being the
\* same in all calls; no call raises.
C4_Idempotent ==
    [][Reconciled(op', students')
       => \A T2 \in {now', NextClock(now')} :
              LET s == StudentOf(students', op'.sid)
                  twice == EnsureFeeRecords(students', fees', fees_id_seq',
                                            s.id, s.admission_date,
                                            s.fee_per_month, s.discount, T2)
                  once == EnsureFeeRecords(students', fees, fees_id_seq,
                                           s.id, s.admission_date,
                                           s.fee_per_month, s.discount, T2)
              IN  twice.ok /\ once.ok /\ twice.fees = once.fees]_vars

\* a Reconcile has inserted months, and a Reconcile a month later will insert
\* again
C4_Witness ==
    /\ Reconciled(op, students) /\ op.inserted > 0
    /\ LET s == StudentOf(students, op.sid)
       IN  EnsureFeeRecords(students, fees, fees_id_seq, s.id,
                            s.admission_date, s.fee_per_month, s.discount,
                            NextClock(now)).fees # fees

\* ----------------------------------------------------------------- C5
\* C5: every fee record Reconcile inserts has fee_amount = fee_per_month -
\* discount as passed to the call (negative when the discount exceeds the
\* fee), is_paid = 0 and no payment_date and payment_mode; edit_student
\* changes no fee record, so the records made before it keep their amount.
C5_AmountAtCreation ==
    [][/\ Reconciled(op', students') =>
              \A f \in fees' \ fees :
                  /\ f.student_id = op'.sid
                  /\ f.fee_amount =
                         StudentOf(students', op'.sid).fee_per_month
                         - StudentOf(students', op'.sid).discount
                  /\ f.is_paid = 0
                  /\ f.payment_date = NullText
                  /\ f.payment_mode = NULL
       /\ op'.name = "edit_student" => fees' = fees]_vars

\* after an edit of the discount, a Reconcile has inserted a record of
\* negative amount next to one of the earlier net fee
C5_Witness ==
    /\ op.name = "view_student" /\ op.result = "ok" /\ op.inserted > 0
    /\ \E f, g \in LedgerOf(fees, op.sid) :
           /\ f.fee_amount = 900 /\ g.fee_amount = -200
           /\ f.id < g.id
           /\ g.is_paid = 0 /\ g.remarks = NULL

\* ----------------------------------------------------------------- C6
\* C6: when admission_date is None, empty or not the text of a calendar
\* date, Reconcile returns without raising and the fee records are what they
\* were.
C6_BadInputNoOp ==
    [][(/\ op'.name \in {"view_student", "add_student"}
        /\ op'.sid \in StudentIds(students')
        /\ ~IsCalendarDate(StudentOf(students', op'.sid).admission_date))
       => (fees' = fees /\ op'.result = "ok" /\ op'.inserted = 0)]_vars

\* a student who has fee records is viewed when the admission date reads
\* 2023-11-31
C6_Witness ==
    /\ op.name = "view_student" /\ op.result = "ok"
    /\ op.sid \in StudentIds(students)
    /\ StudentOf(students, op.sid).admission_date = Ymd(2023, 11, 31)
    /\ LedgerOf(fees, op.sid) # {}

\* ----------------------------------------------------------------- C7
\* the month of fee record f lies from the admission month a through the
\* month of T
InRange(f, a, T) ==
    /\ MonthIndex(a.y, a.m) <= MonthIndex(f.year, f.month)
    /\ MonthIndex(f.year, f.month) <= MonthIndex(T.y, T.m)

\* C7 as stated: after Reconcile at T the ledger of a student with a valid
\* admission date holds no record of a month before the admission month or
\* after the month of T.
C7_Original ==
    [][(Reconciled(op', students')
        /\ IsCalendarDate(StudentOf(students', op'.sid).admission_date))
       => \A f \in LedgerOf(fees', op'.sid) :
              InRange(f, StudentOf(students', op'.sid).admission_date, now')
      ]_vars

\* C7 as amended: Reconcile at T inserts no record of a month before the
\* admission month or after the month of T; a record outside that range is
\* in the ledger after the call only if it was there before it.
C7_InsertsInRange ==
    [][(Reconciled(op', students')
        /\ IsCalendarDate(StudentOf(students', op'.sid).admission_date))
       => \A f \in LedgerOf(fees', op'.sid) :
              \/ InRange(f, StudentOf(students', op'.sid).admission_date,
                         now')
              \/ f \in fees]_vars

\* a Reconcile has inserted months into a ledger that holds a record of
\* October 2023, before the admission month
C7_Witness ==
    /\ op.name = "view_student" /\ op.result = "ok" /\ op.inserted > 0
    /\ IsCalendarDate(StudentOf(students, op.sid).admission_date)
    /\ \E f \in LedgerOf(fees, op.sid) :
           ~InRange(f, StudentOf(students, op.sid).admission_date, now)

\* ----------------------------------------------------------------- C8
\* a record as ensure_fee_records inserts it
Fresh(f) ==
    /\ f.is_paid = 0 /\ f.payment_date = NullText
    /\ f.payment_mode = NULL /\ f.remarks = NULL

\* C8: ToggleStatus on an unpaid record sets is_paid = 1, payment_date =
\* today and payment_mode = "Cash"; on a paid record it sets is_paid = 0 and
\* clears payment_date and payment_mode; two toggles in a row of a record as
\* Reconcile creates it give the fee records back as they were.
C8_Toggle ==
    /\ [][(op'.name = "toggle_fee_status" /\ op'.result = "ok")
          => \A old \in FeesOf(fees, op'.sid, op'.month, op'.year) :
                 \E new \in fees' :
                     /\ new.id = old.id
                     /\ old.is_paid = 0 =>
                            /\ new.is_paid = 1
                            /\ new.payment_date = Ymd(now'.y, now'.m, now'.d)
                            /\ new.payment_mode = "Cash"
                     /\ old.is_paid = 1 =>
                            /\ new.is_paid = 0
                            /\ new.payment_date = NullText
                            /\ new.payment_mode = NULL]_vars
    /\ [](\A f \in fees :
              Fresh(f) =>
                  LET once == ToggleFees(fees, fees_id_seq, f.student_id,
                                         f.month, f.year, now)
                      twice == ToggleFees(once.fees, once.seq, f.student_id,
                                          f.month, f.year, now)
                  IN  once.fees # fees /\ twice.fees = fees)

\* a toggle has made a paid record unpaid and cleared its payment
C8_Witness ==
    /\ op.name = "toggle_fee_status" /\ op.result = "ok"
    /\ \E f \in FeesOf(fees, op.sid, op.month, op.year) :
           Fresh(f) /\ f.fee_amount \in {900, -200}

\* ----------------------------------------------------------------- C9
\* C9: when no fee record exists for (student_id, month, year), ToggleStatus
\* creates none and changes none.
C9_ToggleMissing ==
    [][(op'.name = "toggle_fee_status"
        /\ FeesOf(fees, op'.sid, op'.month, op'.year) = {})
       => (fees' = fees /\ op'.result = "not_found")]_vars

\* a month without record has been toggled for a student who has records
C9_Witness ==
    /\ op.name = "toggle_fee_status" /\ op.result = "not_found"
    /\ op.sid \in StudentIds(students)
    /\ LedgerOf(fees, op.sid) # {}

\* ---------------------------------------------------------------- C10
\* fee record f carries the values of the submitted form
CarriesForm(f, form) ==
    /\ f.fee_amount = form.fee_amount
    /\ f.is_paid = (IF form.is_paid THEN 1 ELSE 0)
    /\ f.payment_date = form.payment_date
    /\ f.payment_mode = form.payment_mode
    /\ f.remarks = form.remarks

\* C10: after a successful UpsertFeeRecord there is exactly one record for
\* the tuple, it carries the submitted values, it keeps the id of the record
\* there was or takes a new id, and every other fee record is unchanged.
C10_Upsert ==
    [][(op'.name = "add_fee_record" /\ op'.result = "ok")
       => LET old == FeesOf(fees, op'.sid, op'.month, op'.year)
              new == FeesOf(fees', op'.sid, op'.month, op'.year)
          IN  /\ Cardinality(new) = 1
              /\ \A f \in new :
                     /\ CarriesForm(f, op'.form)
                     /\ \A o \in old : f.id = o.id
                     /\ old = {} => f.id \notin FeeIds(fees)
              /\ fees' \ new = fees \ old]_vars

\* an upsert has overwritten a record in a table that holds other records
C10_Witness ==
    /\ op.name = "add_fee_record" /\ op.result = "ok" /\ op.inserted = 0
    /\ op.form.fee_amount = 750
    /\ Cardinality(fees) >= 3

\* ---------------------------------------------------------------- C11
RECURSIVE SumOfAmounts(_)
SumOfAmounts(rows) ==
    IF rows = {} THEN 0
    ELSE LET f == CHOOSE g \in rows : TRUE
         IN  f.fee_amount + SumOfAmounts(rows \ {f})

\* the number of the month a name of the calendar table stands for
MonthNumber(name) == CHOOSE i \in 1..12 : months[i + 1] = name

\* C11: the unpaid summary view_student computes for a student holds exactly
\* one item per fee record of that student with is_paid = 0, none for paid
\* records or other students, in ascending (year, month) order, and
\* total_due is the sum of those records' fee_amount; the call never raises.
C11_Original ==
    (op.name = "view_student" /\ op.result = "ok")
    => LET unpaid == {f \in fees : f.student_id = op.sid /\ f.is_paid = 0}
           list == op.view.unpaid_list
       IN  /\ ~op.view.raised
           /\ Len(list) = Cardinality(unpaid)
           /\ \A f \in unpaid :
                  \E i \in 1..Len(list) :
                      /\ f.month \in 1..12
                      /\ list[i].month_name = months[f.month + 1]
                      /\ list[i].year = f.year
                      /\ list[i].amount = f.fee_amount
           /\ \A i, j \in 1..Len(list) :
                  i < j => \/ list[i].year < list[j].year
                           \/ /\ list[i].year = list[j].year
                              /\ MonthNumber(list[i].month_name)
                                 < MonthNumber(list[j].month_name)
           /\ op.view.total_due = SumOfAmounts(unpaid)

\* ---------------------------------------------------------------- C12
\* the rows a list of a document holds
RowsOf(list) == {list[i] : i \in 1..Len(list)}

\* the documents json.load reads from the archives create_backup has made
MadeBackups == {LoadBackup(b) : b \in backups}

\* C12: the document restore_backup reads from an archive create_backup
\* makes of the state holds the student and fee rows of that state, with
\* their ids and field values; restore_backup of such a document raises at
\* no statement, and the student and fee rows it commits are those of the
\* document, whatever the tables held before.
C12_RoundTrip ==
    /\ [](LET doc == LoadBackup(BackupData(students, fees, institute_info,
                                           manager_sessions))
          IN  /\ RowsOf(doc.students) = students
              /\ RowsOf(doc.fees) = fees
              /\ Restored(doc).ok
              /\ Restored(doc).students = students
              /\ Restored(doc).fees = fees)
    /\ [][(op'.name = "restore_backup" /\ op'.form \in MadeBackups)
          => /\ students' = RowsOf(op'.form.students)
             /\ fees' = RowsOf(op'.form.fees)]_vars

\* an archive made of tables that hold a paid record without remarks and a
\* student without admission date has been restored
C12_Witness ==
    /\ op.name = "restore_backup" /\ op.result = "ok"
    /\ op.form \in MadeBackups
    /\ students = RowsOf(op.form.students) /\ students # {}
    /\ \E f \in fees : f.is_paid = 1 /\ f.remarks = NULL
    /\ \E s \in students : s.admission_date = NullText

\* ---------------------------------------------------------------- C13
\* C13: whenever restore_backup ends in failure (the archive does not open
\* or data.json does not parse, a row violates a constraint, the copy of the
\* uploads and the logo fails) or is given a document that lacks the
\* students and fees entries, the student and fee rows are those from before
\* the import.
C13_Original ==
    [][(/\ op'.name = "restore_backup"
        /\ (op'.result = "error" \/ ~op'.form.readable
            \/ ~op'.form.entries))
       => (students' = students /\ fees' = fees)]_vars

\* ---------------------------------------------------------------- C14
\* C14: when two ensure_fee_records calls for the same student run at the
\* same time, neither ends with an error raised, and once both have ended
\* the student has exactly one record for each month from the admission
\* month through the month of the calls.
C14_Original ==
    /\ \A p \in Calls : calls[p].pc # "raised"
    /\ (\A p \in Calls : calls[p].pc = "done")
       => \A s \in students :
              (IsCalendarDate(s.admission_date)
               /\ DateLE(s.admission_date, StartDate))
              => \A m \in MonthsThrough(s.admission_date, StartDate) :
                     Cardinality(FeesOf(fees, s.id, m[2], m[1])) = 1

\* ---------------------------------------------------------------- C15
\* C15: after restore_backup has committed, the next value of
\* students_id_seq is greater than every id in students and the next value
\* of fees_id_seq greater than every id in fees, also when the imported
\* table is empty; and in every state the next value of each sequence is the
\* id of no row, so the INSERT of add_student, ensure_fee_records or
\* add_fee_record that follows collides on no id.
C15_SequenceRealigned ==
    /\ [][(op'.name = "restore_backup" /\ op'.result = "ok")
          => /\ \A s \in students' : s.id < students_id_seq' + 1
             /\ \A f \in fees' : f.id < fees_id_seq' + 1
             /\ students_id_seq' + 1 >= 2 /\ fees_id_seq' + 1 >= 2]_vars
    /\ [](/\ students_id_seq + 1 \notin StudentIds(students)
          /\ fees_id_seq + 1 \notin FeeIds(fees))

\* after an import of a fee record with id 2, a Reconcile has inserted the
\* next month with id 3
C15_Witness ==
    /\ op.name = "view_student" /\ op.result = "ok" /\ op.inserted = 1
    /\ \E f, g \in LedgerOf(fees, op.sid) :
           /\ f.id = 2 /\ f.payment_mode = "UPI" /\ f.remarks = NULL
           /\ g.id = 3 /\ Fresh(g)

\* ---------------------------------------------------------------- C16
\* C16: after restore_backup has succeeded, the rows of students, of fees
\* and of institute_info are the rows of the document, and no row of these
\* tables from before the import that the document does not hold is left.
C16_Original ==
    [][(op'.name = "restore_backup" /\ op'.result = "ok")
       => /\ students' = RowsOf(op'.form.students)
          /\ fees' = RowsOf(op'.form.fees)
          /\ institute_info' = RowsOf(op'.form.institute_info)
          /\ (students \ RowsOf(op'.form.students)) \cap students' = {}
          /\ (fees \ RowsOf(op'.form.fees)) \cap fees' = {}
          /\ (institute_info \ RowsOf(op'.form.institute_info))
               \cap institute_info' = {}]_vars

\* ---------------------------------------------------------------- C17
\* C17: after delete_student(s) no student row and no fee record of s is
\* left, and the fee records of every other student are what they were.
C17_CascadeDelete ==
    [][op'.name = "delete_student"
       => /\ op'.sid \notin StudentIds(students')
          /\ \A f \in fees' : f.student_id # op'.sid
          /\ \A f \in fees : f.student_id # op'.sid => f \in fees'
          /\ fees' \subseteq fees
          /\ \A s \in students : s.id # op'.sid => s \in students']_vars

\* a student who had fee records has been deleted, and another student's
\* records are there
C17_Witness ==
    /\ op.name = "delete_student" /\ op.inserted < 0
    /\ \E f \in fees : f.student_id \in StudentIds(students)

\* ---------------------------------------------------------------- C18
\* C18: in every reachable state no two student rows have the same
\* admission_number.
C18_AdmissionNumberUnique ==
    \A s, t \in students :
        s.admission_number = t.admission_number => s = t

\* after a delete, add_student has generated the admission number of a
\* student there is, and its INSERT has been rejected
C18_Witness ==
    /\ op.name = "add_student" /\ op.result = "error"
    /\ op.sid \notin StudentIds(students)
    /\ \E s \in students :
           s.admission_number = GenerateAdmissionNumber(students, now)

\* ---------------------------------------------------------------- C19
\* C19: students_grid(year) leaves the student rows, the fee rows and the
\* sequences as they were, and the map it hands to the page has, for every
\* student, an entry for a month exactly when the student has a fee record
\* of that month and year, with the is_paid of that record; a month without
\* record gets no entry and no record.
C19_GridReadOnly ==
    [][op'.name = "students_grid"
       => /\ students' = students /\ fees' = fees
          /\ students_id_seq' = students_id_seq
          /\ fees_id_seq' = fees_id_seq
          /\ DOMAIN op'.view = StudentIds(students)
          /\ \A s \in students : \A m \in 0..13 :
                 LET recs == {f \in fees : f.student_id = s.id
                                           /\ f.year = op'.year
                                           /\ f.month = m}
                 IN  /\ m \in DOMAIN op'.view[s.id] <=> recs # {}
                     /\ \A f \in recs : op'.view[s.id][m] = f.is_paid]_vars

\* the grid of 2023 has been built while a student admitted in November
\* 2023 has a record of one month and none of another
C19_Witness ==
    /\ op.name = "students_grid" /\ op.year = 2023
    /\ \E s \in students :
           /\ IsCalendarDate(s.admission_date)
           /\ DateLE(s.admission_date, now)
           /\ \E p, q \in MonthsThrough(s.admission_date, now) :
                  /\ FeesOf(fees, s.id, p[2], p[1]) = {}
                  /\ FeesOf(fees, s.id, q[2], q[1]) # {}
                  /\ q[1] = 2023

\* ---------------------------------------------------------------- C20
\* C20: in every reachable state every fee record has its month in 1..12.
C20_Original == \A f \in fees : f.month \in 1..12

\* ------------------------------------------------------------ claim C21
\* the (id, admission_number) pairs of the rows of S
Identities(S) == {<<s.id, s.admission_number>> : s \in S}

\* C21: edit_student changes neither the id nor the admission_number of a
\* student, and no request other than delete_student and restore_backup
\* changes the (id, admission_number) pair of a student that exists: every
\* pair of before the step is a pair after it, and edit_student leaves the
\* set of pairs as it was.
C21_IdentityImmutable ==
    [][/\ op'.name \notin {"delete_student", "restore_backup"}
          => Identities(students) \subseteq Identities(students')
       /\ op'.name = "edit_student"
          => Identities(students') = Identities(students)]_vars

\* an edit_student has rewritten the admission date and the discount of a
\* student whose ledger was made under the earlier discount
C21_Witness ==
    /\ op.name = "edit_student"
    /\ op.result = "ok"
    /\ \E s \in students :
          /\ s.id = op.sid
          /\ s.discount = 1200
          /\ s.admission_date = Ymd(2023, 11, 30)
          /\ \E f \in fees : f.student_id = s.id /\ f.fee_amount = 900

\* ------------------------------------------------------------ claim C22
\* the handlers that read the ledger of one student to render it
DetailReads ==
    {"view_student", "student_fees", "generate_demand_bill",
     "public_demand_bill"}

\* the fee records of student sid a detail read has before it when it
\* renders: those of the table as the handler leaves it, and for
\* student_fees the rows it hands to its template
RenderedLedger(o, F) ==
    IF o.name = "student_fees" THEN RowsOf(o.view.fee_records)
    ELSE LedgerOf(F, o.sid)

\* C22 as stated: each detail read runs Reconcile first, so what it renders
\* holds a record for every month from the admission month through the
\* current month (for a student whose admission date is a calendar date
\* not later than the time of the request).
C22_Original ==
    [][(/\ op'.name \in DetailReads
        /\ op'.result = "ok"
        /\ IsCalendarDate(StudentOf(students', op'.sid).admission_date)
        /\ DateLE(StudentOf(students', op'.sid).admission_date, now'))
       => \A p \in MonthsThrough(StudentOf(students', op'.sid).admission_date,
                                 now') :
              \E f \in RenderedLedger(op', fees') :
                  f.year = p[1] /\ f.month = p[2]]_vars

\* ------------------------------------------------------------ claim C23
\* (a) whenever committed fee records appear they are all the rows one
\* ensure_fee_records call has inserted, and they complete the months from
\* the admission month through the month of the call
ReconcileAllOrNone ==
    fees' # fees
    => \E p \in Calls :
          /\ calls[p].pc = "commit"
          /\ fees' = fees \cup calls[p].pending
          /\ LET s == StudentOf(students, calls[p].sid)
             IN  \A q \in MonthsThrough(s.admission_date,
                                          calls[p].current_dt) :
                     FeesOf(fees', s.id, q[2], q[1]) # {}

\* (b) a reader that finds a student whose admission date is a calendar
\* date not later than today finds fee records of that student
NoEmptyLedgerRead ==
    (/\ op'.name = "student_fees"
     /\ op' # op
     /\ IsCalendarDate(StudentOf(students', op'.sid).admission_date)
     /\ DateLE(StudentOf(students', op'.sid).admission_date, now'))
    => op'.view.fee_records # <<>>

\* C23 as stated: every operation writes in one transaction, so (a) a
\* Reconcile that inserts several months commits all of them or none, and
\* (b) no concurrent reader observes a committed student of add_student
\* with a valid past admission date and an empty ledger.
C23_Original == [][ReconcileAllOrNone /\ NoEmptyLedgerRead]_vars

\* ------------------------------------------------------------ claim C24
\* the Reconcile that follows for student s at time T makes, for the month
\* of the deleted record f, a record that is unpaid, carries no payment
\* data and has the student's current fee_per_month - discount as amount
RecreatedBy(s, f, T) ==
    LET r == EnsureFeeRecords(students', fees', fees_id_seq', s.id,
                              s.admission_date, s.fee_per_month, s.discount,
                              T)
    IN  /\ r.ok
        /\ \E g \in r.fees \ fees' :
              /\ g.student_id = s.id /\ g.month = f.month /\ g.year = f.year
              /\ Fresh(g)
              /\ g.fee_amount = s.fee_per_month - s.discount

\* the step is a delete_fee_record that has removed record f of student s,
\* whose admission date is a calendar date and whose admission month is not
\* after the month of f, which is not after the current month
DeletedInRange(s, f) ==
    /\ op'.name = "delete_fee_record"
    /\ f \in fees \ fees'
    /\ s \in students'
    /\ s.id = f.student_id
    /\ IsCalendarDate(s.admission_date)
    /\ <<f.year, f.month>> \in MonthsThrough(s.admission_date, now')

C25_Original ==
    \A s \in students :
        s.admission_number # GenerateAdmissionNumber(students, now)

\* ------------------------------------------------------------ claim C26
\* C26 as stated: once a session is made inactive by logout, revoke_session
\* or revoke_all_sessions, no later request that carries that session
\* passes check_session_validity as authenticated, whatever other sessions
\* have done in between (cleanup_sessions and restore_backup included):
\* the request is answered with the redirect to login and the session of
\* the browser is cleared.
C26_Original ==
    [][\A c \in Clients :
          (/\ requests' # requests
           /\ op'.sid = c
           /\ cookies[c].authenticated
           /\ cookies[c].session_record_id \in revoked)
          => /\ op'.result \in {"terminated", "login_required"}
             /\ ~cookies'[c].authenticated]_vars

\* ------------------------------------------------------------ claim C27
\* the row of M with that id, as a set
RowsWithId(M, id) == {r \in M : r.id = id}

\* C27: a revoke_session whose target is the caller's current session
\* leaves that session record active and changes nothing; a revoke_session
\* changes no record but its target; revoke_all_sessions makes every other
\* active session inactive and leaves the caller's record active and every
\* record that was inactive as it was.  (The records are compared with the
\* table as the handler finds it, after check_session_validity has written
\* last_seen_at of the caller's record.)
C27_OwnSessionKept ==
    [][\A c \in Clients :
          LET e == Entered(c)
              current == e.cookie.session_record_id
          IN  (requests' # requests /\ op'.sid = c /\ Passes(e))
              => /\ op'.name \in {"revoke_session", "revoke_all_sessions"}
                    => \A r \in e.sessions :
                          r.session_id = current
                          => r \in manager_sessions' /\ r.is_active = 1
                 /\ op'.name = "revoke_session"
                    => /\ \A r \in e.sessions :
                             r.id # op'.view.session_id
                             => r \in manager_sessions'
                       /\ op'.result = "own_session"
                          => manager_sessions' = e.sessions
                 /\ op'.name = "revoke_all_sessions"
                    => /\ \A r \in manager_sessions' :
                             r.session_id # current => r.is_active = 0
                       /\ \A r \in e.sessions :
                             r.is_active = 0 => r \in manager_sessions'
                       /\ {r.id : r \in manager_sessions'}
                              = {r.id : r \in e.sessions}]_vars

\* revoke_all_sessions has made the session of the other browser inactive
\* and has left the caller's own active
C27_Witness ==
    /\ op.name = "revoke_all_sessions"
    /\ op.result = "ok"
    /\ \E r \in manager_sessions :
          r.session_id = cookies[op.sid].session_record_id /\ r.is_active = 1
    /\ \E r \in manager_sessions :
          /\ r.session_id # cookies[op.sid].session_record_id
          /\ r.is_active = 0
          /\ r.session_id \in revoked

\* ------------------------------------------------------------ claim C28
\* C28: toggle_fee_status changes nothing but is_paid, payment_date and
\* payment_mode of the one record of its (student_id, month, year): that
\* record keeps id, fee_amount and remarks, every other fee record and
\* every student row stay as they were, no record is added or removed; and
\* a paid record toggled twice is paid with payment_date = today and
\* payment_mode = "Cash", whatever its mode was.
C28_ToggleFrame ==
    /\ [][op'.name = "toggle_fee_status"
          => /\ students' = students
             /\ {f.id : f \in fees'} = {f.id : f \in fees}
             /\ \A f \in fees :
                   IF f \in FeesOf(fees, op'.sid, op'.month, op'.year)
                   THEN \E g \in fees' :
                           /\ g.id = f.id
                           /\ g.student_id = f.student_id
                           /\ g.month = f.month /\ g.year = f.year
                           /\ g.fee_amount = f.fee_amount
                           /\ g.remarks = f.remarks
                   ELSE f \in fees']_vars
    /\ [](\A f \in fees :
              f.is_paid = 1 =>
                  LET once == ToggleFees(fees, fees_id_seq, f.student_id,
                                         f.month, f.year, now)
                      twice == ToggleFees(once.fees, once.seq, f.student_id,
                                          f.month, f.year, now)
                  IN  twice.fees =
                          (fees \ {f})
                              \cup {[f EXCEPT !.payment_date = Strftime(now),
                                              !.payment_mode = "Cash"]})

\* a toggle has made unpaid a record that was entered as paid by UPI with
\* a remark, next to another record of the student
C28_Witness ==
    /\ op.name = "toggle_fee_status" /\ op.result = "ok"
    /\ \E f \in FeesOf(fees, op.sid, op.month, op.year) :
           /\ f.is_paid = 0 /\ f.remarks = "late" /\ f.fee_amount = 750
           /\ f.payment_mode = NULL
    /\ Cardinality(LedgerOf(fees, op.sid)) >= 2

\* ------------------------------------------------------------ claim C29
\* the document has a fee row whose student_id is the id of none of its
\* student rows
HasOrphanFee(doc) ==
    \E i \in 1..Len(doc.fees) :
        \A k \in 1..Len(doc.students) :
            doc.students[k].id # doc.fees[i].student_id

\* C29: in every reachable state the student_id of every fee record is the
\* id of a student; add_fee_record for a student_id that no student has
\* fails and leaves the fee records as they were; restore_backup of a
\* document with a fee row for a student the document has not fails and
\* changes no table.
C29_ReferentialIntegrity ==
    /\ [](\A f \in fees : f.student_id \in StudentIds(students))
    /\ [][/\ (op'.name = "add_fee_record"
              /\ op'.sid \notin StudentIds(students))
             => op'.result = "error" /\ fees' = fees /\ students' = students
          /\ (op'.name = "restore_backup" /\ HasOrphanFee(op'.form))
             => /\ op'.result = "error"
                /\ UNCHANGED <<students, fees, manager_sessions,
                               institute_info, students_id_seq,
                               fees_id_seq>>]_vars

\* a restore_backup of the document with the orphan fee row has failed on a
\* database that holds a ledger
C29_Witness ==
    /\ op.name = "restore_backup"
    /\ op.form = DocOrphan
    /\ op.result = "error"
    /\ fees # {}
    /\ \E s \in students : s.id # 1

\* ------------------------------------------------------------ claim C30
\* C30 as stated: the student and fee counts a successful restore_backup
\* reports are the numbers of student and fee rows the tables hold after
\* the import, for every document it accepts.
C30_Original ==
    [][(op'.name = "restore_backup" /\ op'.result = "ok")
       => /\ op'.view.total_students = Cardinality(students')
          /\ op'.view.total_fees = Cardinality(fees')]_vars

====
